---------------------------- MODULE Spec2Model ----------------------------
(***************************************************************************)
(* Jansarthi core: the issue tables, the create_issue handler with its two *)
(* commits and its photo loop, the administrator handlers that shape the   *)
(* user and locality tables, and the status lifecycle.                     *)
(*                                                                         *)
(* A handler is one action, except create_issue, which is cut at its       *)
(* commits: what it committed at line 181 is visible to every other        *)
(* request while its photo loop (lines 185-213) is still running.          *)
(***************************************************************************)
EXTENDS Integers, Sequences, FiniteSets, TLC

VARIABLES
    users,       \* users table: row id -> row (rows are never deleted)
    localities,  \* localities table: existing id -> row
    next_locality_id, \* the localities id sequence
    issues,      \* issues table: row id -> row (committed rows)
    photos,      \* issue_photos table: committed rows, in id order
    blobs,       \* object names held by the blob store
    call,        \* the create_issue request in flight, between its commits
    txns,        \* the requests in flight side by side: what each one has read
    resp         \* the last response sent to a caller

vars == <<users, localities, next_locality_id, issues, photos, blobs, call,
          txns, resp>>

(***************************************************************************)
(* Bounds of the model.                                                    *)
(***************************************************************************)
MaxIssues == 2
MaxLocalities == 2
\* settings.max_file_size, scaled: sizes are counted in units, not bytes
max_file_size == 2

\* settings.max_photos_per_issue ("Up to 3 photos of the issue")
max_photos_per_issue == 3

NULL == 0
NoUrl == <<>>

(***************************************************************************)
(* Enumerations (app/models/issue.py).                                     *)
(***************************************************************************)
IssueType == {"water", "electricity", "road", "garbage"}

\* IssueStatus, in the order of its declaration (the numbered flow 1..6)
IssueStatusOrderCompletedBeforeWorking ==
    << "reported", "assigned", "representative_acknowledged",
       "pwd_completed", "pwd_working", "representative_reviewed" >>

IssueStatusOrder ==
    << "reported", "assigned", "representative_acknowledged",
       "pwd_working", "pwd_completed", "representative_reviewed" >>

IssueStatus == { IssueStatusOrder[k] : k \in 1..Len(IssueStatusOrder) }

\* The position of a status in the order of the enumeration
StatusRank(status) ==
    CHOOSE k \in 1..Len(IssueStatusOrder) : IssueStatusOrder[k] = status

UserRole == {"user", "representative", "pwd_worker", "admin"}

LocalityType == {"ward", "village"}

\* settings.allowed_image_types
allowed_image_types == {"image/jpeg", "image/png"}


(***************************************************************************)
(* Rows.                                                                   *)
(***************************************************************************)
\* User(...), app/models/issue.py
UserRow(mobile, role, active, verified, loc) ==
    [ mobile_number |-> mobile, role |-> role, is_active |-> active,
      is_verified |-> verified, locality_id |-> loc ]

\* Locality(name=, type=, is_active=)
LocalityRow(name, type, active) ==
    [ name |-> name, type |-> type, is_active |-> active ]

\* IssuePhoto(issue_id=, photo_url=, file_size=, content_type=)
IssuePhotoKeyedByFilename(issue_id, object_name, photo) ==
    [ issue_id |-> issue_id, photo_url |-> <<"key", 0>>,
      file_size |-> photo.size, content_type |-> photo.content_type ]

IssuePhoto(issue_id, object_name, photo) ==
    [ issue_id |-> issue_id, photo_url |-> object_name,
      file_size |-> photo.size, content_type |-> photo.content_type ]

UserIds == DOMAIN users
LocalityIds == DOMAIN localities
\* Issue ids are not used again: a deleted issue leaves its place in the
\* table marked "deleted"
IssueIds == { i \in DOMAIN issues : issues[i].status # "deleted" }

\* get_current_active_user: the caller is a stored, active user
ActiveUserIds == { u \in UserIds : users[u].is_active }

(***************************************************************************)
(* The database session of one request: rows added and not yet committed   *)
(* are pending; commit makes them rows of the table, rollback drops them.  *)
(***************************************************************************)
\* session.add(issue_photo)                               reports.py:205
SessionAddCommitsAtOnce(committed, pending, row) ==
    [ committed |-> Append(committed, row), pending |-> pending ]

SessionAdd(committed, pending, row) ==
    [ committed |-> committed, pending |-> Append(pending, row) ]

\* session.rollback()                                     reports.py:209
SessionRollbackKeepsRows(committed, pending) ==
    [ committed |-> committed \o pending, pending |-> <<>> ]

SessionRollback(committed, pending) ==
    [ committed |-> committed, pending |-> <<>> ]

\* session.commit()                                       reports.py:215
SessionCommit(committed, pending) ==
    [ committed |-> committed \o pending, pending |-> <<>> ]

\* The end of the request: get_session (app/database.py, not part of the
\* source) closes the session.  changed: the rows as the objects of the
\* session hold them, with attributes set after the last commit.  Every
\* write of the handlers is followed by its own session.commit(), and what
\* is not committed is dropped with the session.
SessionCloseCommits(committed, changed) == changed

SessionClose(committed, changed) == committed

(***************************************************************************)
(* Storage service (app/services/storage.py is not part of the source: the *)
(* handlers only call it).                                                 *)
(***************************************************************************)
\* storage_service.upload_file(...) returns a generated object name
NewObjectName == <<"key", Cardinality(blobs) + 1>>

\* storage_service.get_file_url(object_name): a presigned URL for the object
get_file_url(object_name) == <<"url", object_name[2]>>

(***************************************************************************)
(* Responses.                                                              *)
(***************************************************************************)
NoBody == [ issue_id |-> NULL, status |-> "", assigned_parshad_id |-> NULL,
            photos |-> <<>>, completion_photo_url |-> NoUrl ]

\* What a response answers: the issue and the status the request named, or
\* the photos it submitted
NoRequest ==
    [ issue_id |-> NULL, target_status |-> "", photos |-> <<>>,
      caller |-> NULL, user_id |-> NULL,
      mobile |-> [ plus |-> FALSE, digits |-> <<>> ], role |-> "",
      locality_id |-> NULL, name |-> "", type |-> "",
      latitude |-> 0, longitude |-> 0, radius |-> 0,
      issue_type |-> {}, status |-> {} ]

\* The query of the map view                             reports.py:316-327
MapRequest(latitude, longitude, radius, issue_type, status_filter) ==
    [ NoRequest EXCEPT !.latitude = latitude, !.longitude = longitude,
                       !.radius = radius, !.issue_type = issue_type,
                       !.status = status_filter ]

IssueRequest(issue_id, target_status) ==
    [ NoRequest EXCEPT !.issue_id = issue_id,
                       !.target_status = target_status ]

\* photos: List[UploadFile] and locality_id of create_issue   reports.py:94-110
CreateRequest(locality_id, batch) ==
    [ NoRequest EXCEPT !.locality_id = locality_id, !.photos = batch ]

\* The administrator's requests about a user              admin.py:425-684
UserRequest(caller, user_id, mobile, role, locality_id) ==
    [ NoRequest EXCEPT !.caller = caller, !.user_id = user_id,
                       !.mobile = mobile, !.role = role,
                       !.locality_id = locality_id ]

\* The administrator's requests about a locality          admin.py:133-414
LocalityRequest(caller, locality_id, name, type) ==
    [ NoRequest EXCEPT !.caller = caller, !.locality_id = locality_id,
                       !.name = name, !.type = type ]

\* Where the responses are not looked at, resp stays Untraced
Untraced == [ op |-> "untraced", code |-> "", request |-> NoRequest,
              body |-> NoBody, items |-> <<>>, n |-> 0 ]

\* A response. n alternates with every response sent, so that the same answer
\* given twice in a row is two responses
ResponseTo(op, request, code, body) ==
    IF resp = Untraced THEN Untraced
    ELSE [ op |-> op, code |-> code, request |-> request, body |-> body,
           items |-> <<>>, n |-> 1 - resp.n ]

\* IssueListResponse(items=...)                           reports.py:297-303
ListResponse(op, code, items) ==
    IF resp = Untraced THEN Untraced
    ELSE [ op |-> op, code |-> code, request |-> NoRequest, body |-> NoBody,
           items |-> items, n |-> 1 - resp.n ]

IdleCall == [ pc |-> "idle", issue_id |-> NULL, submitted |-> <<>>,
              todo |-> <<>>, pending |-> <<>> ]

\* The requests that can be in flight side by side, one per worker process
MaxTransitions == 2
Workers == 1..MaxTransitions

\* A worker that serves no request
NoTransition == [ op |-> "", issue_id |-> NULL, acting_user |-> NULL,
                  target_status |-> "", source_status |-> "",
                  locality_id |-> NULL, name |-> "", type |-> "" ]

NoTransitions == [ w \in Workers |-> NoTransition ]

(***************************************************************************)
(* create_issue                                    app/routes/reports.py   *)
(***************************************************************************)
\* lines 128-143: the loop over the photos; the first offending photo raises
CheckPhotosOnlyFirst(batch) ==
    IF batch = <<>> THEN "ok"
    ELSE IF batch[1].content_type \notin allowed_image_types THEN "invalid_type"
    ELSE IF batch[1].size > max_file_size THEN "too_large"
    ELSE "ok"

RECURSIVE CheckPhotos(_)
CheckPhotos(batch) ==
    IF batch = <<>> THEN "ok"
    ELSE IF Head(batch).content_type \notin allowed_image_types THEN "invalid_type"
    ELSE IF Head(batch).size > max_file_size THEN "too_large"
    ELSE CheckPhotos(Tail(batch))

\* lines 118-143: the count first, then the photos
ValidatePhotosSkipsCount(batch) == CheckPhotos(batch)

ValidatePhotos(batch) ==
    IF Len(batch) > max_photos_per_issue THEN "too_many"
    ELSE CheckPhotos(batch)

\* lines 152-158: the rows of the select; .first() takes one of them, and the
\* query has no ORDER BY, so which one is the database's choice
ParshadRowsAnyLocality(locality_id) ==
    { u \in UserIds : users[u].role = "representative" /\ users[u].is_active }

ParshadRowsOfActiveLocality(locality_id) ==
    { u \in UserIds : /\ users[u].role = "representative"
                      /\ users[u].locality_id = locality_id
                      /\ users[u].is_active
                      /\ locality_id \in LocalityIds
                      /\ localities[locality_id].is_active }

ParshadRows(locality_id) ==
    { u \in UserIds : /\ users[u].role = "representative"
                      /\ users[u].locality_id = locality_id
                      /\ users[u].is_active }

\* lines 146-165: the representative a new issue gets, NULL for none
ParshadChoices(locality_id) ==
    IF locality_id # NULL /\ ParshadRows(locality_id) # {}
    THEN ParshadRows(locality_id)
    ELSE {NULL}

\* lines 148, 160-162
InitialStatusAlwaysReported(parshad) == "reported"

InitialStatus(parshad) ==
    IF parshad # NULL THEN "assigned" ELSE "reported"

\* lines 168-178, with the defaults of Issue (models/issue.py:139-146)
NewIssueStampsCompletion(issue_type, latitude, longitude, locality_id, user_id, parshad) ==
    [ issue_type |-> issue_type,
      latitude |-> latitude, longitude |-> longitude,
      locality_id |-> locality_id,
      user_id |-> user_id, assigned_parshad_id |-> parshad,
      status |-> InitialStatus(parshad),
      completion_description |-> "", completion_photo_url |-> NoUrl,
      completed_at |-> 1, completed_by_id |-> NULL ]

\* latitude and longitude are in thousandths of a degree
NewIssue(issue_type, latitude, longitude, locality_id, user_id, parshad) ==
    [ issue_type |-> issue_type,
      latitude |-> latitude, longitude |-> longitude,
      locality_id |-> locality_id,
      user_id |-> user_id, assigned_parshad_id |-> parshad,
      status |-> InitialStatus(parshad),
      completion_description |-> "", completion_photo_url |-> NoUrl,
      completed_at |-> NULL, completed_by_id |-> NULL ]


\* models/issue.py:114, foreign_key="localities.id"
ForeignKeyHolds(locality_id) ==
    locality_id = NULL \/ locality_id \in LocalityIds

\* issue.photos: the committed photo rows of an issue, in id order
PhotosOf(rows, issue_id) ==
    SelectSeq(rows, LAMBDA p : p.issue_id = issue_id)

\* IssueResponse with the photo URLs (reports.py:38-54 and 219-220)
IssueBodyWithStoredKeys(issue_id, issue, rows) ==
    [ issue_id |-> issue_id, status |-> issue.status,
      assigned_parshad_id |-> issue.assigned_parshad_id,
      photos |-> [ k \in 1..Len(rows) |-> rows[k].photo_url ],
      completion_photo_url |-> issue.completion_photo_url ]

IssueBody(issue_id, issue, rows) ==
    [ issue_id |-> issue_id, status |-> issue.status,
      assigned_parshad_id |-> issue.assigned_parshad_id,
      photos |-> [ k \in 1..Len(rows) |-> get_file_url(rows[k].photo_url) ],
      completion_photo_url |->
          IF issue.completion_photo_url # NoUrl
          THEN get_file_url(issue.completion_photo_url) ELSE NoUrl ]

\* reports.py:223-237: the response of create_issue passes no completion
\* field, so they are None in it
CreatedBody(issue_id, issue, rows) ==
    [ IssueBody(issue_id, issue, rows) EXCEPT !.completion_photo_url = NoUrl ]

\* reports.py:219-220: photo.photo_url = get_file_url(photo.photo_url) on the
\* photo objects of the new issue, after the commit
WithPresignedUrls(rows, issue_id) ==
    [ k \in DOMAIN rows |->
        IF rows[k].issue_id = issue_id
        THEN [ rows[k] EXCEPT !.photo_url = get_file_url(@) ]
        ELSE rows[k] ]

\* reports.py:36-85
build_issue_response(issue_id) ==
    IssueBody(issue_id, issues[issue_id], PhotosOf(photos, issue_id))

\* lines 118-182: the checks, the resolution of the representative, the
\* insert of the issue and its commit.  fk_enforced: whether the database
\* engine enforces the foreign key of locality_id (the engine is configured
\* outside the source); if it does, the commit of a row naming no locality
\* raises and the request ends with an unhandled error.
CreateIssue(user_id, issue_type, latitude, longitude, locality_id, batch, fk_enforced) ==
    /\ call.pc = "idle"
    /\ user_id \in ActiveUserIds
    /\ IF ValidatePhotos(batch) # "ok"
       THEN /\ resp' = ResponseTo("create_issue", CreateRequest(locality_id, batch),
                                  "400", NoBody)
            /\ UNCHANGED <<txns, users, localities, next_locality_id, issues,
                           photos, blobs, call>>
       ELSE IF fk_enforced /\ ~ForeignKeyHolds(locality_id)
       THEN /\ resp' = ResponseTo("create_issue", CreateRequest(locality_id, batch),
                                  "500", NoBody)
            /\ UNCHANGED <<txns, users, localities, next_locality_id, issues,
                           photos, blobs, call>>
       ELSE /\ Len(issues) < MaxIssues
            /\ \E parshad \in ParshadChoices(locality_id) :
                 issues' = Append(issues,
                     NewIssue(issue_type, latitude, longitude, locality_id,
                              user_id, parshad))
            /\ call' = [ pc |-> "uploading", issue_id |-> Len(issues) + 1,
                         submitted |-> batch, todo |-> batch,
                         pending |-> <<>> ]
            /\ UNCHANGED <<txns, users, localities, next_locality_id, photos,
                           blobs, resp>>

\* lines 207-213: the raise ends the handler
CallAfterFailureGoesOn(c) ==
    [ c EXCEPT !.todo = Tail(c.todo), !.pending = <<>> ]

CallAfterFailure(c) == IdleCall

\* lines 185-213: one round of the photo loop.  outcome "stored": upload and
\* record both succeed; "upload_failed": upload_file raises; "record_failed":
\* the object is stored and the creation of the record raises.
UploadPhoto(outcome) ==
    /\ call.pc = "uploading"
    /\ call.todo # <<>>
    /\ LET photo == Head(call.todo)
           row == IssuePhoto(call.issue_id, NewObjectName, photo)
           added == SessionAdd(photos, call.pending, row)
           undone == SessionRollback(photos, call.pending)
       IN  IF outcome = "stored"
           THEN /\ blobs' = blobs \cup {NewObjectName}
                /\ photos' = added.committed
                /\ call' = [ call EXCEPT !.todo = Tail(call.todo),
                                         !.pending = added.pending ]
                /\ UNCHANGED resp
           ELSE /\ blobs' = IF outcome = "record_failed"
                            THEN blobs \cup {NewObjectName} ELSE blobs
                /\ photos' = undone.committed
                /\ call' = CallAfterFailure(
                              [ call EXCEPT !.pending = undone.pending ])
                /\ resp' = ResponseTo("create_issue",
                              CreateRequest(issues[call.issue_id].locality_id, call.submitted), "500", NoBody)
    /\ UNCHANGED <<txns, users, localities, next_locality_id, issues>>

\* lines 215-216: new_issue carries no change since line 181; the commit
\* writes the pending photo rows and leaves the issue row as it is
CommitIssueAssignsLate(row) ==
    [ row EXCEPT !.status = "assigned" ]

CommitIssue(row) == row

\* lines 215-237: the second commit and the response
FinishCreateIssue ==
    /\ call.pc = "uploading"
    /\ call.todo = <<>>
    /\ LET done == SessionCommit(photos, call.pending)
           changed == WithPresignedUrls(done.committed, call.issue_id)
       IN  /\ photos' = SessionClose(done.committed, changed)
           /\ issues' = [ issues EXCEPT ![call.issue_id] = CommitIssue(@) ]
           /\ call' = IdleCall
           /\ resp' = ResponseTo("create_issue",
                 CreateRequest(issues[call.issue_id].locality_id, call.submitted), "201",
                 CreatedBody(call.issue_id, issues'[call.issue_id],
                           PhotosOf(done.committed, call.issue_id)))
    /\ UNCHANGED <<txns, users, localities, next_locality_id, blobs>>

\* reports.py:378-401
GetIssue(issue_id) ==
    /\ resp' = IF issue_id \in IssueIds
               THEN ResponseTo("get_issue", IssueRequest(issue_id, ""), "200",
                               build_issue_response(issue_id))
               ELSE ResponseTo("get_issue", IssueRequest(issue_id, ""), "404",
                               NoBody)
    /\ UNCHANGED <<txns, users, localities, next_locality_id, issues, photos,
                   blobs, call>>

\* The smaller of two numbers
Min(a, b) == IF a <= b THEN a ELSE b

\* reports.py:268-286: the caller's issues that pass the filters, newest
\* first (ids grow with created_at); a filter is {} for None, {v} for v
IssuesOfUser(user_id, issue_type, status_filter) ==
    SelectSeq([ k \in 1..Len(issues) |-> Len(issues) + 1 - k ],
              LAMBDA i : /\ issues[i].user_id = user_id
                         /\ issue_type \subseteq {issues[i].issue_type}
                         /\ status_filter \subseteq {issues[i].status})

\* reports.py:245-303
GetIssues(user_id, page, page_size, issue_type, status_filter) ==
    /\ user_id \in ActiveUserIds
    /\ LET matched == IssuesOfUser(user_id, issue_type, status_filter)
           offset == (page - 1) * page_size
           shown == SubSeq(matched, offset + 1,
                           Min(offset + page_size, Len(matched)))
       IN  resp' = ListResponse("get_issues", "200",
                      [ k \in 1..Len(shown) |-> build_issue_response(shown[k]) ])
    /\ UNCHANGED <<txns, users, localities, next_locality_id, issues, photos,
                   blobs, call>>

(***************************************************************************)
(* Deletion of an issue.  No handler of the source deletes an issue; the   *)
(* design leaves the policy to the administration and asks that the        *)
(* deletion take the photos of the issue with it.  The photos relationship *)
(* of Issue is declared with cascade_delete=True (models/issue.py:163-165).*)
(***************************************************************************)
DeletedIssue ==
    [ NewIssue("", 0, 0, NULL, NULL, NULL) EXCEPT !.status = "deleted" ]

\* photos = Relationship(back_populates="issue", cascade_delete=True)
CascadeDeleteKeepsPhotos(rows, issue_id) == rows

CascadeDelete(rows, issue_id) ==
    SelectSeq(rows, LAMBDA p : p.issue_id # issue_id)

\* One transaction, taken once the call that created the issue has ended
DeleteIssue(issue_id) ==
    /\ call.issue_id # issue_id
    /\ IF issue_id \notin IssueIds
       THEN /\ resp' = ResponseTo("delete_issue", IssueRequest(issue_id, ""),
                                  "404", NoBody)
            /\ UNCHANGED <<issues, photos>>
       ELSE /\ issues' = [ issues EXCEPT ![issue_id] = DeletedIssue ]
            /\ photos' = CascadeDelete(photos, issue_id)
            /\ resp' = ResponseTo("delete_issue", IssueRequest(issue_id, ""),
                                  "204", NoBody)
    /\ UNCHANGED <<txns, users, localities, next_locality_id, blobs, call>>

(***************************************************************************)
(* get_issues_for_map                              reports.py:311-370      *)
(* Coordinates are whole thousandths of a degree, angles whole             *)
(* nanoradians, distances and the radius whole metres.  The arithmetic is  *)
(* fixed-point in 32 bits: sin and asin are taken as their argument and    *)
(* cos as 1 - x^2/2, which is haversine_distance to one part in a thousand *)
(* within two degrees of the origin, where every point used here lies.     *)
(***************************************************************************)
Abs(x) == IF x < 0 THEN -x ELSE x

Max(a, b) == IF a >= b THEN a ELSE b

\* The largest r in lo..hi with r * r <= x
RECURSIVE SqrtBetween(_, _, _)
SqrtBetween(x, lo, hi) ==
    IF lo = hi THEN lo
    ELSE LET mid == (lo + hi + 1) \div 2
         IN  IF mid * mid <= x THEN SqrtBetween(x, mid, hi)
                               ELSE SqrtBetween(x, lo, mid - 1)

\* sqrt(x) for x below 2^31
sqrt(x) == SqrtBetween(x, 0, 46340)

\* radians(degrees): a thousandth of a degree is 17453 nanoradians
radians(thousandths) == thousandths * 17453

\* 1 - cos(x) in millionths, x in nanoradians
OneMinusCos(x) ==
    LET micro == Abs(x) \div 1000 IN (micro * micro) \div 2000000

\* reports.py:348-361, the result in metres
haversine_distance(lat1, lon1, lat2, lon2) ==
    LET dlat == Abs(radians(lat2) - radians(lat1))
        dlon == Abs(radians(lon2) - radians(lon1))
        \* sin(dlat / 2) and sin(dlon / 2), scaled down by f to square them
        f == Max(dlat, dlon) \div 60000 + 1
        sin_dlat == (dlat \div 2) \div f
        sin_dlon == (dlon \div 2) \div f
        \* 1 - cos(lat1) * cos(lat2) in millionths
        loss == OneMinusCos(radians(lat1)) + OneMinusCos(radians(lat2))
        a == sin_dlat * sin_dlat + sin_dlon * sin_dlon
                - (((sin_dlon * sin_dlon) \div 1000) * loss) \div 1000
        \* c = 2 * asin(sqrt(a)) in nanoradians
        c == 2 * sqrt(a) * f
    IN  \* R * c with R = 6371 km
        IF c < 300000 THEN (6371 * c) \div 1000000
                      ELSE (6371 * (c \div 1000)) \div 1000

\* The permutations of a finite set, as sequences
RECURSIVE Orderings(_)
Orderings(set) ==
    IF set = {} THEN {<<>>}
    ELSE UNION { { <<x>> \o rest : rest \in Orderings(set \ {x}) } : x \in set }

\* reports.py:334-368 with "<" for "<="
NearbyIssuesInsideOnly(latitude, longitude, radius, issue_type, status_filter) ==
    { i \in IssueIds :
        /\ issue_type \subseteq {issues[i].issue_type}
        /\ status_filter \subseteq {issues[i].status}
        /\ haversine_distance(latitude, longitude,
                              issues[i].latitude, issues[i].longitude) < radius }

\* reports.py:334-368: the ids of nearby_issues
NearbyIssues(latitude, longitude, radius, issue_type, status_filter) ==
    { i \in IssueIds :
        /\ issue_type \subseteq {issues[i].issue_type}
        /\ status_filter \subseteq {issues[i].status}
        /\ haversine_distance(latitude, longitude,
                              issues[i].latitude, issues[i].longitude) <= radius }

\* reports.py:311-370.  The select has no ORDER BY: the rows come in any
\* order.  The response lists the ids of the issues returned.
GetIssuesForMap(latitude, longitude, radius, issue_type, status_filter) ==
    /\ \E items \in Orderings(NearbyIssues(latitude, longitude, radius,
                                           issue_type, status_filter)) :
          resp' = [ ListResponse("get_issues_for_map", "200", items)
                      EXCEPT !.request = MapRequest(latitude, longitude, radius,
                                                    issue_type, status_filter) ]
    /\ UNCHANGED <<txns, users, localities, next_locality_id, issues, photos,
                   blobs, call>>

(***************************************************************************)
(* Optional request fields: {} is None, {v} is the value v.                *)
(***************************************************************************)
IsGiven(o) == o # {}
Given(o) == CHOOSE v \in o : TRUE

(***************************************************************************)
(* normalize_phone_number                       app/services/twilio.py     *)
(* A phone number is its leading "+" and its digits.                       *)
(***************************************************************************)
Phone(plus, digits) == [ plus |-> plus, digits |-> digits ]

StartsWith91(digits) ==
    Len(digits) >= 2 /\ digits[1] = 9 /\ digits[2] = 1

\* twilio.py:13-47
normalize_adds_plus_only(phone) == Phone(TRUE, phone.digits)

normalize_phone_number(phone) ==
    IF phone.plus
    THEN Phone(TRUE, phone.digits)
    ELSE IF ~StartsWith91(phone.digits) \/ Len(phone.digits) = 10
         THEN Phone(TRUE, <<9, 1>> \o phone.digits)
         ELSE Phone(TRUE, phone.digits)

(***************************************************************************)
(* Administrator handlers                          app/routes/admin.py     *)
(***************************************************************************)
\* admin.py:111-122
IsStaff(caller) == users[caller].role # "user"

IsAdmin(caller) == users[caller].role = "admin"

\* raise HTTPException(status_code=code): nothing is written
Rejected(op, request, code) ==
    /\ resp' = ResponseTo(op, request, code, NoBody)
    /\ UNCHANGED <<txns, users, localities, next_locality_id, issues, photos,
                   blobs, call>>

\* admin.py:117-121
Forbidden(op, request) == Rejected(op, request, "403")

\* admin.py:133-179
CreateLocality(caller, name, type) ==
    LET request == LocalityRequest(caller, NULL, name, type)
    IN
    /\ caller \in ActiveUserIds
    /\ IF ~IsAdmin(caller) THEN Forbidden("create_locality", request)
       ELSE IF \E l \in LocalityIds :
                  localities[l].name = name /\ localities[l].type = type
       THEN Rejected("create_locality", request, "400")
       ELSE /\ next_locality_id <= MaxLocalities
            /\ localities' = (next_locality_id :> LocalityRow(name, type, TRUE))
                                @@ localities
            /\ next_locality_id' = next_locality_id + 1
            /\ resp' = ResponseTo("create_locality", request, "201", NoBody)
            /\ UNCHANGED <<txns, users, issues, photos, blobs, call>>

\* admin.py:305-367
UpdateLocality(caller, locality_id, name, is_active) ==
    LET request == LocalityRequest(caller, locality_id,
                       IF IsGiven(name) THEN Given(name) ELSE "", "")
    IN
    /\ caller \in ActiveUserIds
    /\ IF ~IsAdmin(caller) THEN Forbidden("update_locality", request)
       ELSE IF locality_id \notin LocalityIds
       THEN Rejected("update_locality", request, "404")
       ELSE IF /\ IsGiven(name)
               /\ \E l \in LocalityIds :
                     /\ localities[l].name = Given(name)
                     /\ localities[l].type = localities[locality_id].type
                     /\ l # locality_id
       THEN Rejected("update_locality", request, "400")
       ELSE /\ localities' = [ localities EXCEPT ![locality_id] =
                 LocalityRow(
                   IF IsGiven(name) THEN Given(name) ELSE @.name,
                   @.type,
                   IF IsGiven(is_active) THEN Given(is_active) ELSE @.is_active) ]
            /\ resp' = ResponseTo("update_locality", request, "200", NoBody)
            /\ UNCHANGED <<txns, users, next_locality_id, issues, photos, blobs, call>>

\* admin.py:375-414
DeleteLocalityIgnoresUsers(caller, locality_id) ==
    LET request == LocalityRequest(caller, locality_id, "", "")
    IN
    /\ caller \in ActiveUserIds
    /\ IF ~IsAdmin(caller) THEN Forbidden("delete_locality", request)
       ELSE IF locality_id \notin LocalityIds
       THEN Rejected("delete_locality", request, "404")
       ELSE IF \E i \in IssueIds : issues[i].locality_id = locality_id
       THEN Rejected("delete_locality", request, "400")
       ELSE /\ localities' = [ l \in LocalityIds \ {locality_id} |-> localities[l] ]
            /\ resp' = ResponseTo("delete_locality", request, "204", NoBody)
            /\ UNCHANGED <<txns, users, next_locality_id, issues, photos,
                           blobs, call>>

DeleteLocality(caller, locality_id) ==
    LET request == LocalityRequest(caller, locality_id, "", "")
    IN
    /\ caller \in ActiveUserIds
    /\ IF ~IsAdmin(caller) THEN Forbidden("delete_locality", request)
       ELSE IF locality_id \notin LocalityIds
       THEN Rejected("delete_locality", request, "404")
       ELSE IF \E i \in IssueIds : issues[i].locality_id = locality_id
       THEN Rejected("delete_locality", request, "400")
       ELSE IF \E u \in UserIds : users[u].locality_id = locality_id
       THEN Rejected("delete_locality", request, "400")
       ELSE /\ localities' = [ l \in LocalityIds \ {locality_id} |-> localities[l] ]
            /\ resp' = ResponseTo("delete_locality", request, "204", NoBody)
            /\ UNCHANGED <<txns, users, next_locality_id, issues, photos, blobs, call>>

\* admin.py:425-511
CreateUser(caller, mobile, role, locality_id) ==
    LET request == UserRequest(caller, NULL, mobile, role, locality_id)
    IN
    /\ caller \in ActiveUserIds
    /\ LET normalized_number == normalize_phone_number(mobile)
           existing == { u \in UserIds : users[u].mobile_number = normalized_number }
       IN
       IF ~IsAdmin(caller) THEN Forbidden("create_user", request)
       ELSE IF role = "user" THEN Rejected("create_user", request, "400")
       ELSE IF role = "representative" /\ locality_id = NULL
       THEN Rejected("create_user", request, "400")
       ELSE IF locality_id # NULL /\ locality_id \notin LocalityIds
       THEN Rejected("create_user", request, "404")
       ELSE IF locality_id # NULL /\ ~localities[locality_id].is_active
       THEN Rejected("create_user", request, "400")
       ELSE IF existing # {} /\ users[Given(existing)].role = role
       THEN Rejected("create_user", request, "400")
       ELSE IF existing # {}
       THEN /\ users' = [ users EXCEPT ![Given(existing)] =
                 [ @ EXCEPT !.role = role, !.is_verified = TRUE,
                            !.locality_id = IF locality_id # NULL
                                            THEN locality_id ELSE @ ] ]
            /\ resp' = ResponseTo("create_user", request, "201", NoBody)
            /\ UNCHANGED <<txns, localities, next_locality_id, issues, photos, blobs, call>>
       ELSE /\ users' = Append(users,
                 UserRow(normalized_number, role, TRUE, TRUE, locality_id))
            /\ resp' = ResponseTo("create_user", request, "201", NoBody)
            /\ UNCHANGED <<txns, localities, next_locality_id, issues, photos, blobs, call>>

\* admin.py:603-652
UpdateUser(caller, user_id, role, is_active, locality_id) ==
    LET request == UserRequest(caller, user_id, NoRequest.mobile,
                       IF IsGiven(role) THEN Given(role) ELSE "", locality_id)
    IN
    /\ caller \in ActiveUserIds
    /\ IF ~IsAdmin(caller) THEN Forbidden("update_user", request)
       ELSE IF user_id \notin UserIds THEN Rejected("update_user", request, "404")
       ELSE IF user_id = caller /\ IsGiven(role) /\ Given(role) # "admin"
       THEN Rejected("update_user", request, "400")
       ELSE IF locality_id # NULL /\ locality_id \notin LocalityIds
       THEN Rejected("update_user", request, "404")
       ELSE /\ users' = [ users EXCEPT ![user_id] =
                 [ @ EXCEPT
                     !.role = IF IsGiven(role) THEN Given(role) ELSE @,
                     !.is_active = IF IsGiven(is_active) THEN Given(is_active) ELSE @,
                     !.locality_id = IF locality_id # NULL THEN locality_id ELSE @ ] ]
            /\ resp' = ResponseTo("update_user", request, "200", NoBody)
            /\ UNCHANGED <<txns, localities, next_locality_id, issues, photos, blobs, call>>

\* admin.py:660-684
DeactivateUserAnswersOnly(caller, user_id) ==
    /\ caller \in ActiveUserIds
    /\ Rejected("deactivate_user",
                UserRequest(caller, user_id, NoRequest.mobile, "", NULL), "204")

DeactivateUser(caller, user_id) ==
    LET request == UserRequest(caller, user_id, NoRequest.mobile, "", NULL)
    IN
    /\ caller \in ActiveUserIds
    /\ IF ~IsAdmin(caller) THEN Forbidden("deactivate_user", request)
       ELSE IF user_id \notin UserIds THEN Rejected("deactivate_user", request, "404")
       ELSE IF user_id = caller THEN Rejected("deactivate_user", request, "400")
       ELSE /\ users' = [ users EXCEPT ![user_id].is_active = FALSE ]
            /\ resp' = ResponseTo("deactivate_user", request, "204", NoBody)
            /\ UNCHANGED <<txns, localities, next_locality_id, issues, photos, blobs, call>>

\* The administrator's reads: the rows they return are not kept anywhere.
\* admin.py:187-248
GetLocalities(caller) ==
    LET request == LocalityRequest(caller, NULL, "", "")
    IN
    /\ caller \in ActiveUserIds
    /\ IF ~IsAdmin(caller) THEN Forbidden("get_localities", request)
       ELSE Rejected("get_localities", request, "200")

\* admin.py:256-297
GetLocality(caller, locality_id) ==
    LET request == LocalityRequest(caller, locality_id, "", "")
    IN
    /\ caller \in ActiveUserIds
    /\ IF ~IsAdmin(caller) THEN Forbidden("get_locality", request)
       ELSE IF locality_id \notin LocalityIds
       THEN Rejected("get_locality", request, "404")
       ELSE Rejected("get_locality", request, "200")

\* admin.py:519-572
GetUsers(caller) ==
    LET request == UserRequest(caller, NULL, NoRequest.mobile, "", NULL)
    IN
    /\ caller \in ActiveUserIds
    /\ IF ~IsAdmin(caller) THEN Forbidden("get_users", request)
       ELSE Rejected("get_users", request, "200")

\* admin.py:580-595
GetUser(caller, user_id) ==
    LET request == UserRequest(caller, user_id, NoRequest.mobile, "", NULL)
    IN
    /\ caller \in ActiveUserIds
    /\ IF ~IsAdmin(caller) THEN Forbidden("get_user", request)
       ELSE IF user_id \notin UserIds THEN Rejected("get_user", request, "404")
       ELSE Rejected("get_user", request, "200")

(***************************************************************************)
(* TransitionIssue: the status-changing call of the representative and of  *)
(* the crew worker.  Its handlers are not among the source files; this is  *)
(* the transition table of the design (Issue Lifecycle Engine).            *)
(***************************************************************************)
\* The stage that follows a status, "" after the last one
NextStatus(status) ==
    IF StatusRank(status) < Len(IssueStatusOrder)
    THEN IssueStatusOrder[StatusRank(status) + 1]
    ELSE ""

\* The role each transition requires of the acting user
RoleMayApply(issue, acting_user, target_status) ==
    CASE target_status \in {"representative_acknowledged", "representative_reviewed"}
           -> /\ users[acting_user].role = "representative"
              /\ issue.assigned_parshad_id = acting_user
      [] target_status \in {"pwd_working", "pwd_completed"}
           -> users[acting_user].role = "pwd_worker"
      [] OTHER -> FALSE

TransitionAllowedAnyLaterStage(issue, acting_user, target_status) ==
    /\ StatusRank(target_status) > StatusRank(issue.status)
    /\ RoleMayApply(issue, acting_user, target_status)

\* The source state must be the stored status, and the role must fit
TransitionAllowed(issue, acting_user, target_status) ==
    /\ target_status = NextStatus(issue.status)
    /\ RoleMayApply(issue, acting_user, target_status)

\* The row after the transition; PWD_COMPLETED fills the completion fields
Transitioned(issue, acting_user, target_status, description, photo_url, now) ==
    IF target_status = "pwd_completed"
    THEN [ issue EXCEPT !.status = target_status,
                        !.completion_description = description,
                        !.completion_photo_url = photo_url,
                        !.completed_at = now,
                        !.completed_by_id = acting_user ]
    ELSE [ issue EXCEPT !.status = target_status ]

\* photo: {} for no completion photo, {p} for the photo p
TransitionIssue(issue_id, acting_user, target_status, description, photo, now) ==
    /\ acting_user \in ActiveUserIds
    /\ LET request == IssueRequest(issue_id, target_status)
       IN
       IF issue_id \notin IssueIds
       THEN /\ resp' = ResponseTo("transition", request, "NotFound", NoBody)
            /\ UNCHANGED <<txns, users, localities, next_locality_id, issues,
                           photos, blobs, call>>
       ELSE IF ~TransitionAllowed(issues[issue_id], acting_user, target_status)
       THEN /\ resp' = ResponseTo("transition", request, "InvalidTransition",
                                  build_issue_response(issue_id))
            /\ UNCHANGED <<txns, users, localities, next_locality_id, issues,
                           photos, blobs, call>>
       ELSE IF target_status = "pwd_completed" /\ description = ""
       THEN /\ resp' = ResponseTo("transition", request, "ValidationError", NoBody)
            /\ UNCHANGED <<txns, users, localities, next_locality_id, issues,
                           photos, blobs, call>>
       ELSE LET stored == target_status = "pwd_completed" /\ IsGiven(photo)
                photo_url == IF stored THEN NewObjectName ELSE NoUrl
            IN  /\ issues' = [ issues EXCEPT ![issue_id] =
                      Transitioned(@, acting_user, target_status,
                                   description, photo_url, now) ]
                /\ blobs' = IF stored THEN blobs \cup {NewObjectName} ELSE blobs
                /\ resp' = ResponseTo("transition", request, "ok",
                      IssueBody(issue_id, issues'[issue_id],
                                PhotosOf(photos, issue_id)))
                /\ UNCHANGED <<txns, users, localities, next_locality_id, photos, call>>

(***************************************************************************)
(* create_locality and update_locality as worker processes serve them side *)
(* by side: the select that looks for a duplicate (admin.py:147-152 and    *)
(* 324-330) and the commit (166 and 345) are two statements of two         *)
(* database sessions, and the localities table has no unique constraint on *)
(* name and type (models/issue.py:52-91).                                  *)
(***************************************************************************)
\* admin.py:133-158: the checks of create_locality
BeginCreateLocality(w, caller, name, type) ==
    LET request == LocalityRequest(caller, NULL, name, type)
    IN
    /\ txns[w] = NoTransition
    /\ caller \in ActiveUserIds
    /\ IF ~IsAdmin(caller) THEN Forbidden("create_locality", request)
       ELSE IF \E l \in LocalityIds :
                  localities[l].name = name /\ localities[l].type = type
       THEN Rejected("create_locality", request, "400")
       ELSE /\ txns' = [ txns EXCEPT ![w] =
                 [ NoTransition EXCEPT !.op = "create_locality",
                                       !.acting_user = caller,
                                       !.name = name, !.type = type ] ]
            /\ UNCHANGED <<users, localities, next_locality_id, issues,
                           photos, blobs, call, resp>>

\* admin.py:160-179: the insert of create_locality and its commit
CommitCreateLocality(w) ==
    /\ txns[w].op = "create_locality"
    /\ next_locality_id <= MaxLocalities
    /\ localities' = (next_locality_id :>
                         LocalityRow(txns[w].name, txns[w].type, TRUE))
                     @@ localities
    /\ next_locality_id' = next_locality_id + 1
    /\ resp' = ResponseTo("create_locality",
          LocalityRequest(txns[w].acting_user, NULL, txns[w].name, txns[w].type),
          "201", NoBody)
    /\ txns' = [ txns EXCEPT ![w] = NoTransition ]
    /\ UNCHANGED <<users, issues, photos, blobs, call>>

\* admin.py:305-341: the checks of update_locality with a new name
BeginUpdateLocality(w, caller, locality_id, name) ==
    LET request == LocalityRequest(caller, locality_id, name, "")
    IN
    /\ txns[w] = NoTransition
    /\ caller \in ActiveUserIds
    /\ IF ~IsAdmin(caller) THEN Forbidden("update_locality", request)
       ELSE IF locality_id \notin LocalityIds
       THEN Rejected("update_locality", request, "404")
       ELSE IF \E l \in LocalityIds :
                  /\ localities[l].name = name
                  /\ localities[l].type = localities[locality_id].type
                  /\ l # locality_id
       THEN Rejected("update_locality", request, "400")
       ELSE /\ txns' = [ txns EXCEPT ![w] =
                 [ NoTransition EXCEPT !.op = "update_locality",
                                       !.acting_user = caller,
                                       !.locality_id = locality_id,
                                       !.name = name ] ]
            /\ UNCHANGED <<users, localities, next_locality_id, issues,
                           photos, blobs, call, resp>>

\* admin.py:341-367: the update of the name and its commit
CommitUpdateLocality(w) ==
    /\ txns[w].op = "update_locality"
    /\ localities' = [ localities EXCEPT ![txns[w].locality_id].name =
                                            txns[w].name ]
    /\ resp' = ResponseTo("update_locality",
          LocalityRequest(txns[w].acting_user, txns[w].locality_id,
                          txns[w].name, ""),
          "200", NoBody)
    /\ txns' = [ txns EXCEPT ![w] = NoTransition ]
    /\ UNCHANGED <<users, next_locality_id, issues, photos, blobs, call>>

(***************************************************************************)
(* delete_locality as a worker process serves it beside other requests:    *)
(* the counts of the issues and users of the locality (admin.py:392-411)   *)
(* and the delete with its commit (413-414) are separate statements, and   *)
(* a report for the locality can be committed between them.                *)
(***************************************************************************)
\* admin.py:375-411: the checks of delete_locality
BeginDeleteLocality(w, caller, locality_id) ==
    LET request == LocalityRequest(caller, locality_id, "", "")
    IN
    /\ txns[w] = NoTransition
    /\ caller \in ActiveUserIds
    /\ IF ~IsAdmin(caller) THEN Forbidden("delete_locality", request)
       ELSE IF locality_id \notin LocalityIds
       THEN Rejected("delete_locality", request, "404")
       ELSE IF \E i \in IssueIds : issues[i].locality_id = locality_id
       THEN Rejected("delete_locality", request, "400")
       ELSE IF \E u \in UserIds : users[u].locality_id = locality_id
       THEN Rejected("delete_locality", request, "400")
       ELSE /\ txns' = [ txns EXCEPT ![w] =
                 [ NoTransition EXCEPT !.op = "delete_locality",
                                       !.acting_user = caller,
                                       !.locality_id = locality_id ] ]
            /\ UNCHANGED <<users, localities, next_locality_id, issues,
                           photos, blobs, call, resp>>

\* The issues that name a locality
IssuesOfLocality(locality_id) ==
    { i \in IssueIds : issues[i].locality_id = locality_id }

\* What the delete of a locality does to issues that name it by then:
\* the engine refuses it (issues.locality_id is declared a foreign key,
\* models/issue.py:114); or the session first empties the locality_id of
\* the issues it finds through Locality.issues, a relationship declared
\* without cascade (models/issue.py:89), and deletes; or the row is
\* deleted and the issues are left as they are.
DeleteOutcomes(locality_id) ==
    IF IssuesOfLocality(locality_id) = {} THEN {"deleted"}
    ELSE {"refused", "nullified", "dangling"}

\* admin.py:413-414: session.delete(locality) and the commit
CommitDeleteLocality(w, outcome) ==
    LET locality_id == txns[w].locality_id
        request == LocalityRequest(txns[w].acting_user, locality_id, "", "")
    IN
    /\ txns[w].op = "delete_locality"
    /\ txns' = [ txns EXCEPT ![w] = NoTransition ]
    /\ IF locality_id \notin LocalityIds \/ outcome = "refused"
       THEN /\ resp' = ResponseTo("delete_locality", request, "500", NoBody)
            /\ UNCHANGED <<localities, issues>>
       ELSE /\ outcome \in DeleteOutcomes(locality_id)
            /\ localities' = [ l \in LocalityIds \ {locality_id} |->
                                  localities[l] ]
            /\ issues' = IF outcome = "nullified"
                          THEN [ i \in DOMAIN issues |->
                                   IF i \in IssuesOfLocality(locality_id)
                                   THEN [ issues[i] EXCEPT
                                            !.locality_id = NULL ]
                                   ELSE issues[i] ]
                          ELSE issues
            /\ resp' = ResponseTo("delete_locality", request, "204", NoBody)
    /\ UNCHANGED <<users, next_locality_id, photos, blobs, call>>

(***************************************************************************)
(* The same call as its requests run side by side: a request reads the     *)
(* issue and checks the transition, and writes afterwards with an update   *)
(* conditional on the status it read (the design relies on the store for   *)
(* this: "optimistic concurrency via conditional update").                 *)
(***************************************************************************)
\* The update writes only a row that still has the status the request read
SourceNotCheckedAgain(issue, txn) == TRUE

SourceStillStored(issue, txn) == issue.status = txn.source_status

\* The read and the precondition check of a request served by worker w
BeginTransition(w, issue_id, acting_user, target_status) ==
    /\ txns[w] = NoTransition
    /\ acting_user \in ActiveUserIds
    /\ LET request == IssueRequest(issue_id, target_status)
       IN
       IF issue_id \notin IssueIds
       THEN /\ resp' = ResponseTo("transition", request, "NotFound", NoBody)
            /\ UNCHANGED <<txns, users, localities, next_locality_id, issues,
                           photos, blobs, call>>
       ELSE IF ~TransitionAllowed(issues[issue_id], acting_user, target_status)
       THEN /\ resp' = ResponseTo("transition", request, "InvalidTransition",
                                  build_issue_response(issue_id))
            /\ UNCHANGED <<txns, users, localities, next_locality_id, issues,
                           photos, blobs, call>>
       ELSE /\ txns' = [ txns EXCEPT ![w] =
                 [ NoTransition EXCEPT
                     !.op = "transition",
                     !.issue_id = issue_id, !.acting_user = acting_user,
                     !.target_status = target_status,
                     !.source_status = issues[issue_id].status ] ]
            /\ UNCHANGED <<users, localities, next_locality_id, issues,
                           photos, blobs, call, resp>>

\* The conditional update of the request served by worker w, and its answer
CommitTransition(w, description, now) ==
    /\ txns[w].op = "transition"
    /\ LET txn == txns[w]
           request == IssueRequest(txn.issue_id, txn.target_status)
       IN  IF SourceStillStored(issues[txn.issue_id], txn)
           THEN /\ issues' = [ issues EXCEPT ![txn.issue_id] =
                      Transitioned(@, txn.acting_user, txn.target_status,
                                   description, NoUrl, now) ]
                /\ resp' = ResponseTo("transition", request, "ok",
                      IssueBody(txn.issue_id, issues'[txn.issue_id],
                                PhotosOf(photos, txn.issue_id)))
           ELSE /\ resp' = ResponseTo("transition", request,
                      "InvalidTransition", build_issue_response(txn.issue_id))
                /\ UNCHANGED issues
    /\ txns' = [ txns EXCEPT ![w] = NoTransition ]
    /\ UNCHANGED <<users, localities, next_locality_id, photos, blobs, call>>

(***************************************************************************)
(* Inputs.                                                                 *)
(***************************************************************************)
AdminMobile == Phone(TRUE, <<9, 1, 9, 0, 0, 0, 0, 0, 0, 0, 0, 1>>)
CitizenMobile == Phone(TRUE, <<9, 1, 9, 0, 0, 0, 0, 0, 0, 0, 0, 2>>)
StaffMobile == Phone(FALSE, <<9, 0, 0, 0, 0, 0, 0, 0, 0, 3>>)

GoodPhoto == [ content_type |-> "image/jpeg", size |-> max_file_size ]
LargePhoto == [ content_type |-> "image/jpeg", size |-> max_file_size + 1 ]
PdfFile == [ content_type |-> "application/pdf", size |-> 1 ]

LocalityInputs == {NULL, 1, 2}
\* the callers of create_issue: the citizen of the initial state
Reporters == {2}
Outcomes == {"stored", "upload_failed", "record_failed"}

\* Whether the engine enforces the foreign key shows only where it is broken
EngineChoices(locality_id) ==
    IF ForeignKeyHolds(locality_id) THEN {FALSE} ELSE BOOLEAN

(***************************************************************************)
(* Spec: report submission together with the administrator handlers.       *)
(***************************************************************************)
NoResponse == [ op |-> "none", code |-> "", request |-> NoRequest,
                body |-> NoBody, items |-> <<>>, n |-> 0 ]

Init ==
    /\ users = << UserRow(AdminMobile, "admin", TRUE, TRUE, NULL),
                  UserRow(CitizenMobile, "user", TRUE, TRUE, NULL) >>
    /\ localities = <<>>
    /\ next_locality_id = 1
    /\ issues = <<>>
    /\ photos = <<>>
    /\ blobs = {}
    /\ call = IdleCall
    /\ txns = NoTransitions
    /\ resp = Untraced

\* UpdateUserRequest bodies: one field, or a role together with a locality
UpdateRequests(roles) ==
    { [ role |-> {}, is_active |-> a, locality_id |-> NULL ] :
          a \in {{}, {TRUE}, {FALSE}} }
    \cup { [ role |-> r, is_active |-> {}, locality_id |-> l ] :
          r \in {{}} \cup {{x} : x \in roles}, l \in LocalityInputs }

AdminActions(callers, targets, roles) ==
    \/ \E c \in callers, name \in {"Rajpur"}, type \in LocalityType :
          CreateLocality(c, name, type)
    \/ \E c \in callers, l \in LocalityInputs \ {NULL},
          name \in {{}, {"Rajpur"}}, a \in {{}, {TRUE}, {FALSE}} :
          UpdateLocality(c, l, name, a)
    \/ \E c \in callers, l \in LocalityInputs \ {NULL} : DeleteLocality(c, l)
    \/ \E c \in callers, r \in roles, l \in LocalityInputs :
          CreateUser(c, StaffMobile, r, l)
    \/ \E c \in callers, u \in targets, q \in UpdateRequests(roles) :
          UpdateUser(c, u, q.role, q.is_active, q.locality_id)
    \/ \E c \in callers, u \in targets : DeactivateUser(c, u)

Next ==
    \/ \E u \in Reporters, l \in LocalityInputs :
          \E fk \in EngineChoices(l) : CreateIssue(u, "water", 0, 0, l, <<>>, fk)
    \/ FinishCreateIssue
    \/ AdminActions({1}, {2, 3}, {"representative"})

Spec == Init /\ [][Next]_vars

(***************************************************************************)
(* SpecLifecycle: reports and status transitions over a staffed directory: *)
(* locality 1 with its representative (user 3) and a crew worker (user 4). *)
(***************************************************************************)
RepresentativeMobile == Phone(TRUE, <<9, 1, 9, 0, 0, 0, 0, 0, 0, 0, 0, 3>>)
WorkerMobile == Phone(TRUE, <<9, 1, 9, 0, 0, 0, 0, 0, 0, 0, 0, 4>>)

InitStaffed ==
    /\ users = << UserRow(AdminMobile, "admin", TRUE, TRUE, NULL),
                  UserRow(CitizenMobile, "user", TRUE, TRUE, NULL),
                  UserRow(RepresentativeMobile, "representative", TRUE, TRUE, 1),
                  UserRow(WorkerMobile, "pwd_worker", TRUE, TRUE, NULL) >>
    /\ localities = (1 :> LocalityRow("Rajpur", "ward", TRUE))
    /\ next_locality_id = 2
    /\ issues = <<>>
    /\ photos = <<>>
    /\ blobs = {}
    /\ call = IdleCall
    /\ txns = NoTransitions
    /\ resp = NoResponse

Descriptions == {"", "pipe replaced"}
Times == {1}

\* The payload of a request: a completion description and an optional photo
\* with the target PWD_COMPLETED, none with the other targets
Payloads(target_status) ==
    IF target_status = "pwd_completed"
    THEN { [ description |-> d, photo |-> ph ] :
             d \in Descriptions, ph \in {{}, {GoodPhoto}} }
    ELSE { [ description |-> "", photo |-> {} ] }

NextLifecycle ==
    \/ \E l \in {NULL, 1} : CreateIssue(2, "water", 0, 0, l, <<>>, FALSE)
    \/ FinishCreateIssue
    \/ \E i \in 1..MaxIssues, u \in {2, 3, 4}, t \in IssueStatus,
          now \in Times :
          \E payload \in Payloads(t) :
             TransitionIssue(i, u, t, payload.description, payload.photo, now)

SpecLifecycle == InitStaffed /\ [][NextLifecycle]_vars

(***************************************************************************)
(* SpecPhotos: reports with photos over the staffed directory, the photo   *)
(* loop with its failures, and readers of an issue between the commits.    *)
(***************************************************************************)
\* k photos that pass the checks
GoodPhotos(k) == [ j \in 1..k |-> GoodPhoto ]

\* k photos of which the one at position at fails a check
OneBadPhoto(k, at, bad) == [ j \in 1..k |-> IF j = at THEN bad ELSE GoodPhoto ]

\* The batches submitted: up to one photo more than allowed, and every
\* position of an oversized photo or of a file that is no image
PhotoBatches ==
    { GoodPhotos(k) : k \in 0..(max_photos_per_issue + 1) }
    \cup { OneBadPhoto(k, at, bad) :
             k \in 1..max_photos_per_issue, at \in 1..max_photos_per_issue,
             bad \in {LargePhoto, PdfFile} }

NextPhotos ==
    \/ \E l \in {NULL, 1}, b \in PhotoBatches :
          CreateIssue(2, "water", 0, 0, l, b, FALSE)
    \/ \E o \in Outcomes : UploadPhoto(o)
    \/ FinishCreateIssue
    \/ \E i \in 1..MaxIssues : GetIssue(i)

SpecPhotos == InitStaffed /\ [][NextPhotos]_vars

(***************************************************************************)
(* SpecReaders: reports with photos, their completion with a photo, and    *)
(* the readers get_issue and get_issues.                                   *)
(***************************************************************************)
NextReaders ==
    \/ \E b \in {GoodPhotos(0), GoodPhotos(2)} :
          CreateIssue(2, "water", 0, 0, 1, b, FALSE)
    \/ UploadPhoto("stored")
    \/ FinishCreateIssue
    \/ \E u \in {3, 4}, ph \in {{}, {GoodPhoto}}, now \in Times :
          \E t \in IF 1 \in IssueIds THEN {NextStatus(issues[1].status)} ELSE {} :
             TransitionIssue(1, u, t, "pipe replaced", ph, now)
    \/ \E i \in 1..2 : GetIssue(i)
    \/ \E q \in { <<1, 2, {}>>, <<2, 1, {}>>, <<1, 1, {"pwd_completed"}>> } :
          GetIssues(2, q[1], q[2], {}, q[3])

SpecReaders == InitStaffed /\ [][NextReaders]_vars

(***************************************************************************)
(* SpecDeactivation: reports for the locality of the staffed directory     *)
(* while the administrator deactivates users and activates them again.     *)
(***************************************************************************)
NextDeactivation ==
    \/ \E l \in {NULL, 1} : CreateIssue(2, "water", 0, 0, l, <<>>, FALSE)
    \/ FinishCreateIssue
    \/ \E c \in {1, 2}, u \in 1..5 : DeactivateUser(c, u)
    \/ \E u \in {3, 4} : UpdateUser(1, u, {}, {TRUE}, NULL)

SpecDeactivation == InitStaffed /\ [][NextDeactivation]_vars

(***************************************************************************)
(* SpecSharedLocality: reports for a locality that two active              *)
(* representatives (users 3 and 4) share; no handler here writes the users *)
(* table, so every report is made against the same users.                  *)
(***************************************************************************)
SecondRepresentativeMobile == Phone(TRUE, <<9, 1, 9, 0, 0, 0, 0, 0, 0, 0, 0, 5>>)

InitSharedLocality ==
    /\ users = << UserRow(AdminMobile, "admin", TRUE, TRUE, NULL),
                  UserRow(CitizenMobile, "user", TRUE, TRUE, NULL),
                  UserRow(RepresentativeMobile, "representative", TRUE, TRUE, 1),
                  UserRow(SecondRepresentativeMobile, "representative",
                          TRUE, TRUE, 1) >>
    /\ localities = (1 :> LocalityRow("Rajpur", "ward", TRUE))
    /\ next_locality_id = 2
    /\ issues = <<>>
    /\ photos = <<>>
    /\ blobs = {}
    /\ call = IdleCall
    /\ txns = NoTransitions
    /\ resp = NoResponse

NextSharedLocality ==
    \/ \E l \in {NULL, 1}, b \in {GoodPhotos(0), GoodPhotos(1)} :
          CreateIssue(2, "water", 0, 0, l, b, FALSE)
    \/ \E o \in Outcomes : UploadPhoto(o)
    \/ FinishCreateIssue
    \/ \E i \in 1..MaxIssues : GetIssue(i)

SpecSharedLocality == InitSharedLocality /\ [][NextSharedLocality]_vars

(***************************************************************************)
(* SpecConcurrentTransitions: transition requests of the representative    *)
(* and of the crew worker running side by side on the reported issues.     *)
(***************************************************************************)
NextConcurrentTransitions ==
    \/ CreateIssue(2, "water", 0, 0, 1, <<>>, FALSE)
    \/ FinishCreateIssue
    \/ \E w \in Workers, i \in 1..2, u \in {3, 4} :
          \E t \in {"reported"} \cup
                   (IF 1 \in IssueIds THEN {NextStatus(issues[1].status)} ELSE {}) :
             BeginTransition(w, IF t = "reported" THEN i ELSE 1, u, t)
    \/ \E w \in Workers, now \in Times : CommitTransition(w, "pipe replaced", now)

SpecConcurrentTransitions == InitStaffed /\ [][NextConcurrentTransitions]_vars

(***************************************************************************)
(* SpecConcurrentLocalities: create_locality and update_locality requests  *)
(* of the administrator served side by side.                               *)
(***************************************************************************)
LocalityNames == {"Rajpur", "Doiwala"}

NextConcurrentLocalities ==
    \/ \E w \in Workers, c \in {1, 2}, name \in LocalityNames,
          type \in LocalityType : BeginCreateLocality(w, c, name, type)
    \/ \E w \in Workers : CommitCreateLocality(w)
    \/ \E w \in Workers, c \in {1, 2}, l \in LocalityInputs \ {NULL},
          name \in LocalityNames : BeginUpdateLocality(w, c, l, name)
    \/ \E w \in Workers : CommitUpdateLocality(w)

SpecConcurrentLocalities == InitStaffed /\ [][NextConcurrentLocalities]_vars

(***************************************************************************)
(* SpecUsers: create_user over the staffed directory, for the number of    *)
(* the representative in its three spellings and for a new number, while   *)
(* the administrator switches the locality off and on.                     *)
(***************************************************************************)
NewStaffMobile == Phone(FALSE, <<9, 0, 0, 0, 0, 0, 0, 0, 0, 5>>)

\* "+919000000003", "9000000003", "919000000003", and a new number
MobileInputs ==
    { RepresentativeMobile, StaffMobile,
      Phone(FALSE, <<9, 1>> \o StaffMobile.digits), NewStaffMobile }

NextUsers ==
    \/ \E c \in {1, 2}, m \in MobileInputs, r \in UserRole,
          l \in LocalityInputs : CreateUser(c, m, r, l)
    \/ \E a \in BOOLEAN : UpdateLocality(1, 1, {}, {a})

SpecUsers == InitStaffed /\ [][NextUsers]_vars

(***************************************************************************)
(* SpecLocalityDeletion: delete_locality over the staffed directory, with  *)
(* new localities, reports for them and the representative moved between   *)
(* them.                                                                   *)
(***************************************************************************)
NextLocalityDeletion ==
    \/ \E c \in {1, 2}, l \in 1..(MaxLocalities + 1) : DeleteLocality(c, l)
    \/ \E type \in LocalityType : CreateLocality(1, "Doiwala", type)
    \/ \E l \in LocalityInputs :
          \E fk \in EngineChoices(l) : CreateIssue(2, "water", 0, 0, l, <<>>, fk)
    \/ FinishCreateIssue
    \/ \E l \in LocalityInputs : UpdateUser(1, 3, {}, {}, l)

SpecLocalityDeletion == InitStaffed /\ [][NextLocalityDeletion]_vars

(***************************************************************************)
(* SpecMap: reports of two types at the centre, 157 m, 1 km and 157 km     *)
(* away from it, with and without a representative, and the map query      *)
(* around (0, 0) with radii from 100 m (the least allowed) to 100 km (the  *)
(* most), among them the exact distance of a stored issue.                 *)
(***************************************************************************)
MapReports ==
    { [ issue_type |-> "road", at |-> <<0, 0>>, locality_id |-> 1 ],
      [ issue_type |-> "water", at |-> <<1, 1>>, locality_id |-> 1 ],
      [ issue_type |-> "road", at |-> <<1, 1>>, locality_id |-> NULL ],
      [ issue_type |-> "water", at |-> <<0, 9>>, locality_id |-> NULL ],
      [ issue_type |-> "water", at |-> <<1000, 1000>>, locality_id |-> NULL ] }

Radii == { 100, haversine_distance(0, 0, 1, 1), 1000,
           haversine_distance(0, 0, 0, 9), 100000 }

NextMap ==
    \/ \E r \in MapReports :
          CreateIssue(2, r.issue_type, r.at[1], r.at[2], r.locality_id, <<>>,
                      FALSE)
    \/ FinishCreateIssue
    \/ \E r \in Radii, t \in {{}, {"water"}},
          st \in {{}, {"assigned"}} :
          GetIssuesForMap(0, 0, r, t, st)

SpecMap == InitStaffed /\ [][NextMap]_vars

(***************************************************************************)
(* SpecPhotoOwnership: reports with up to two photos, uploads that fail,   *)
(* and the deletion of issues.                                             *)
(***************************************************************************)
NextPhotoOwnership ==
    \/ \E k \in 0..2 : CreateIssue(2, "water", 0, 0, 1, GoodPhotos(k), FALSE)
    \/ \E o \in Outcomes : UploadPhoto(o)
    \/ FinishCreateIssue
    \/ \E i \in 1..MaxIssues : DeleteIssue(i)

SpecPhotoOwnership == InitStaffed /\ [][NextPhotoOwnership]_vars

(***************************************************************************)
(* SpecOwnAccount: the administrator handlers about users, called by the   *)
(* administrator, and by the representative once made an administrator,    *)
(* on their own accounts and on each other's.                              *)
(***************************************************************************)
\* The administrator's number as stored and in its ten-digit spelling
OwnMobileInputs ==
    { AdminMobile, Phone(FALSE, <<9, 0, 0, 0, 0, 0, 0, 0, 0, 1>>) }

NextOwnAccount ==
    \/ \E c \in {1, 3}, u \in {1, 3} : DeactivateUser(c, u)
    \/ \E c \in {1, 3}, u \in {1, 3},
          q \in UpdateRequests({"admin", "pwd_worker"}) :
          UpdateUser(c, u, q.role, q.is_active, q.locality_id)
    \/ \E c \in {1, 3}, m \in OwnMobileInputs,
          r \in {"admin", "pwd_worker", "representative"}, l \in {NULL, 1} :
          CreateUser(c, m, r, l)

SpecOwnAccount == InitStaffed /\ [][NextOwnAccount]_vars

(***************************************************************************)
(* SpecConcurrentDeletion: reports for the localities of the staffed       *)
(* directory and for a new one, while worker processes serve               *)
(* delete_locality.                                                        *)
(***************************************************************************)
NextConcurrentDeletion ==
    \/ CreateLocality(1, "Doiwala", "ward")
    \/ \E w \in Workers, l \in LocalityInputs \ {NULL} :
          BeginDeleteLocality(w, 1, l)
    \/ \E w \in Workers, o \in {"deleted", "refused", "nullified", "dangling"} :
          CommitDeleteLocality(w, o)
    \/ \E l \in LocalityInputs :
          \E fk \in EngineChoices(l) : CreateIssue(2, "water", 0, 0, l, <<>>, fk)
    \/ FinishCreateIssue

SpecConcurrentDeletion == InitStaffed /\ [][NextConcurrentDeletion]_vars

(***************************************************************************)
(* SpecLocalityAssignment: create_user and update_user naming locality 1,  *)
(* which the administrator switches off and on, and locality 2, which is   *)
(* not stored.                                                             *)
(***************************************************************************)
NextLocalityAssignment ==
    \/ \E m \in {StaffMobile, NewStaffMobile},
          r \in {"representative", "pwd_worker"}, l \in LocalityInputs :
          CreateUser(1, m, r, l)
    \/ \E u \in {3, 4, 5}, r \in {{}, {"representative"}},
          l \in LocalityInputs : UpdateUser(1, u, r, {}, l)
    \/ \E a \in BOOLEAN : UpdateLocality(1, 1, {}, {a})

SpecLocalityAssignment == InitStaffed /\ [][NextLocalityAssignment]_vars

(***************************************************************************)
(* SpecAdminOnly: every administrator handler called by every user of the  *)
(* staffed directory, where the administrator can make others              *)
(* administrators too.                                                     *)
(***************************************************************************)
AdminReads(callers) ==
    \/ \E c \in callers : GetLocalities(c)
    \/ \E c \in callers, l \in LocalityInputs \ {NULL} : GetLocality(c, l)
    \/ \E c \in callers : GetUsers(c)
    \/ \E c \in callers, u \in {4, 5} : GetUser(c, u)

NextAdminOnly ==
    \/ \E c \in 1..4 : CreateLocality(c, "Doiwala", "ward")
    \/ \E c \in 1..4, a \in BOOLEAN : UpdateLocality(c, 1, {}, {a})
    \/ \E c \in 1..4, l \in LocalityInputs \ {NULL} : DeleteLocality(c, l)
    \/ \E c \in 1..4 : CreateUser(c, StaffMobile, "pwd_worker", NULL)
    \/ \E c \in 1..4 : UpdateUser(c, 2, {"admin"}, {}, NULL)
    \/ \E c \in 1..4 : UpdateUser(c, 3, {}, {}, 2)
    \/ \E c \in 1..4 : DeactivateUser(c, 4)
    \/ AdminReads(1..4)

SpecAdminOnly == InitStaffed /\ [][NextAdminOnly]_vars

(***************************************************************************)
(* Claims about the assignment of a new issue (checked under Spec).        *)
(***************************************************************************)
\* The active representatives of a locality in the users table
ActiveRepresentativesOf(locality_id) ==
    { u \in DOMAIN users : /\ users[u].role = "representative"
                           /\ users[u].is_active
                           /\ users[u].locality_id = locality_id }

\* C1: the step of create_issue that stores the issue stores it ASSIGNED to
\* an active representative of the submitted locality if the users table
\* holds one at that moment, and REPORTED with no representative if it holds
\* none or the submitted locality_id is null.
C1_AutoAssignment ==
    [][ Len(issues') = Len(issues) + 1 =>
          LET new == issues'[Len(issues')]
              reps == ActiveRepresentativesOf(new.locality_id)
          IN  IF new.locality_id # NULL /\ reps # {}
              THEN new.status = "assigned" /\ new.assigned_parshad_id \in reps
              ELSE new.status = "reported" /\ new.assigned_parshad_id = NULL
      ]_vars

\* Both cases have happened: one issue was assigned, and one submitted with a
\* locality was left unassigned
C1_Witness ==
    \E i, j \in IssueIds :
        /\ issues[i].status = "assigned" /\ issues[i].assigned_parshad_id # NULL
        /\ issues[j].status = "reported" /\ issues[j].locality_id # NULL

\* C2: in every state reached by create_issue and the administrator
\* handlers, a stored issue has a representative if and only if its status
\* is ASSIGNED or a later stage.
C2_AssignedIffRepresentative ==
    \A i \in IssueIds :
        (issues[i].assigned_parshad_id # NULL)
            <=> (StatusRank(issues[i].status) >= StatusRank("assigned"))

\* An issue is assigned to a representative who has since been deactivated
\* and moved by the administrator, next to an unassigned one
C2_Witness ==
    \E i, j \in IssueIds :
        /\ issues[i].assigned_parshad_id # NULL
        /\ ~users[issues[i].assigned_parshad_id].is_active
        /\ users[issues[i].assigned_parshad_id].locality_id # issues[i].locality_id
        /\ issues[j].assigned_parshad_id = NULL

\* C3: a committed issue row keeps the status and the representative it was
\* first committed with through every later step, those of its own
\* create_issue call included: no REPORTED row turns ASSIGNED.
C3_CommittedInFinalInitialStatus ==
    [][ \A i \in IssueIds :
          /\ i \in DOMAIN issues'
          /\ issues'[i].status = issues[i].status
          /\ issues'[i].assigned_parshad_id = issues[i].assigned_parshad_id
      ]_vars

\* The call that committed an ASSIGNED issue is still running
C3_Witness ==
    /\ call.pc = "uploading"
    /\ issues[call.issue_id].status = "assigned"
    /\ issues[call.issue_id].assigned_parshad_id # NULL

(***************************************************************************)
(* Claims about the lifecycle (checked under SpecLifecycle).               *)
(***************************************************************************)
\* The lifecycle order the claims name
Lifecycle ==
    << "reported", "assigned", "representative_acknowledged",
       "pwd_working", "pwd_completed", "representative_reviewed" >>

Stage(status) == CHOOSE k \in 1..Len(Lifecycle) : Lifecycle[k] = status

\* A response to a transition call on a stored issue was sent in this step
TransitionAnswered ==
    /\ resp'.op = "transition"
    /\ resp'.n # resp.n
    /\ resp'.request.issue_id \in IssueIds

\* C4: a transition call succeeds only when its target is the immediate
\* successor of the stored status, and then stores the target; with any
\* other target it fails with InvalidTransition; every failed call, the
\* same call made again included, leaves the stored issues as they were.
C4_OnlyImmediateSuccessor ==
    [][ TransitionAnswered =>
          LET i == resp'.request.issue_id
              target == resp'.request.target_status
          IN  /\ IF Stage(target) = Stage(issues[i].status) + 1
                 THEN resp'.code = "ok" => issues'[i].status = target
                 ELSE resp'.code = "InvalidTransition"
              /\ resp'.code # "ok" => issues' = issues /\ photos' = photos
      ]_vars

\* A bad transition call was refused on an issue that legal calls had moved
\* two stages on, and the refusal shows the stored status
C4_Witness ==
    /\ resp.op = "transition"
    /\ resp.code = "InvalidTransition"
    /\ resp.request.issue_id \in IssueIds
    /\ issues[resp.request.issue_id].status = "pwd_working"
    /\ resp.body.status = "pwd_working"
    /\ resp.request.target_status = "representative_reviewed"

\* C5: no step moves the status of a stored issue to an earlier stage.
C5_StatusNeverRegresses ==
    [][ \A i \in IssueIds :
          /\ i \in DOMAIN issues'
          /\ Stage(issues'[i].status) >= Stage(issues[i].status)
      ]_vars

\* An issue has gone through every stage
C5_Witness ==
    \E i \in IssueIds : issues[i].status = "representative_reviewed"

CompletionAllNull(issue) ==
    /\ issue.completion_description = ""
    /\ issue.completion_photo_url = NoUrl
    /\ issue.completed_at = NULL
    /\ issue.completed_by_id = NULL

CompletionAllSet(issue) ==
    /\ issue.completion_description # ""
    /\ issue.completion_photo_url # NoUrl
    /\ issue.completed_at # NULL
    /\ issue.completed_by_id # NULL

BatchPassesChecks(batch) ==
    /\ Len(batch) <= max_photos_per_issue
    /\ \A k \in 1..Len(batch) :
          /\ batch[k].content_type \in allowed_image_types
          /\ batch[k].size <= max_file_size

\* A response to a create_issue call was sent in this step
CreateAnswered == resp'.op = "create_issue" /\ resp'.n # resp.n

\* The create_issue call that is writing in this step
WritingCall == IF call.pc = "uploading" THEN call ELSE call'

\* C7: a create_issue call whose photos violate a pre-check (too many
\* photos, a content type that is not allowed, a photo that is too large,
\* at any position) is answered 400 with no issue row, no photo row and no
\* blob written; whatever is written is written for a batch that passes
\* every pre-check.
C7_RejectedBeforeAnyWrite ==
    [][ /\ (CreateAnswered /\ ~BatchPassesChecks(resp'.request.photos))
              => /\ resp'.code = "400"
                 /\ UNCHANGED <<issues, photos, blobs, call>>
        /\ (issues' # issues \/ photos' # photos \/ blobs' # blobs)
              => /\ WritingCall.pc = "uploading"
                 /\ BatchPassesChecks(WritingCall.submitted)
      ]_vars

\* Three photos of which the last is too large were refused, and nothing is
\* stored
C7_Witness ==
    /\ resp.op = "create_issue"
    /\ resp.code = "400"
    /\ resp.request.photos = OneBadPhoto(3, 3, LargePhoto)
    /\ issues = <<>> /\ photos = <<>> /\ blobs = {}

\* A round of the photo loop failed in this step: the call had a photo to
\* upload, moved, and the photo did not join the photos it holds
UploadFailed ==
    /\ call.pc = "uploading"
    /\ call.todo # <<>>
    /\ call' # call
    /\ ~( /\ call'.pc = "uploading"
          /\ Len(call'.pending) = Len(call.pending) + 1 )

\* C8: when the upload or the record of the k-th photo of a call fails, the
\* caller gets one failure response, the call is over (no second response
\* can follow), and no photo row of the call is persisted: the photos table
\* is as it was and holds no photo of the call's issue.
C8_FailedUploadLeavesNoPhoto ==
    [][ /\ UploadFailed => CreateAnswered /\ resp'.code = "500"
        /\ (call.pc = "uploading" /\ CreateAnswered /\ resp'.code = "500")
              => /\ call' = IdleCall
                 /\ photos' = photos
                 /\ PhotosOf(photos', call.issue_id) = <<>>
      ]_vars

\* A call with three good photos failed after two of them had been uploaded
C8_Witness ==
    /\ resp.op = "create_issue"
    /\ resp.code = "500"
    /\ resp.request.photos = GoodPhotos(3)
    /\ call = IdleCall
    /\ Len(issues) = 1
    /\ Cardinality(blobs) = 2
    /\ photos = <<>>

\* The issues table as it was before the call in flight
IssuesBeforeCall ==
    IF call.pc = "uploading" THEN SubSeq(issues, 1, call.issue_id - 1)
    ELSE issues

\* C9: a create_issue call that returns a failure leaves the issues table
\* and the photos table as they were before the call; no issue row of the
\* failed call remains.
C9_FailureLeavesDatabaseAsBefore ==
    [][ (CreateAnswered /\ resp'.code # "201")
            => /\ issues' = IssuesBeforeCall
               /\ photos' = photos
      ]_vars

\* C10: a get_issue that runs while a create_issue with N >= 1 photos is in
\* flight never shows the new issue with fewer than N photos.
C10_ReadersSeeIssueWithItsPhotos ==
    [][ ( /\ resp'.op = "get_issue"
          /\ resp'.n # resp.n
          /\ resp'.code = "200"
          /\ call.pc = "uploading"
          /\ resp'.request.issue_id = call.issue_id )
            => Len(resp'.body.photos) = Len(call.submitted)
      ]_vars

\* C11: every persisted photo row has a file_size within max_file_size and
\* an allowed content type, and no issue owns more than
\* max_photos_per_issue photo rows.
C11_PersistedPhotosWithinLimits ==
    /\ \A k \in 1..Len(photos) :
          /\ photos[k].file_size <= max_file_size
          /\ photos[k].content_type \in allowed_image_types
    /\ \A i \in IssueIds :
          Len(PhotosOf(photos, i)) <= max_photos_per_issue

\* An issue owns as many photo rows as are allowed, of the largest size
C11_Witness ==
    \E i \in IssueIds :
        /\ Len(PhotosOf(photos, i)) = max_photos_per_issue
        /\ \A k \in 1..Len(photos) : photos[k].file_size = max_file_size

\* C12: the storage key of every photo row, persisted or added to the
\* session, is the name of an object the blob store holds.
C12_PhotoKeysAreStoredBlobs ==
    /\ \A k \in 1..Len(photos) : photos[k].photo_url \in blobs
    /\ \A k \in 1..Len(call.pending) : call.pending[k].photo_url \in blobs

\* Persisted photos under different keys, and an object in the store that
\* no row names
C12_Witness ==
    /\ \E j, k \in 1..Len(photos) : photos[j].photo_url # photos[k].photo_url
    /\ \E b \in blobs : \A k \in 1..Len(photos) : photos[k].photo_url # b

(***************************************************************************)
(* Claims about what readers are shown (checked under SpecReaders).        *)
(***************************************************************************)
\* The issues a response sent in this step returns to its caller
ReturnedIssues ==
    IF resp'.n = resp.n THEN <<>>
    ELSE IF resp'.op = "get_issues" THEN resp'.items
    ELSE IF resp'.op = "get_issue" /\ resp'.code = "200" THEN << resp'.body >>
    ELSE IF resp'.op = "create_issue" /\ resp'.code = "201" THEN << resp'.body >>
    ELSE <<>>

\* C13: every issue that create_issue, get_issue and get_issues return
\* carries, for each of its photo rows, the URL the storage service makes of
\* the row's key, and for the completion photo that URL or nothing; what it
\* carries is never a key of the blob store.
C13_ReturnedIssuesCarryUrls ==
    [][ \A j \in 1..Len(ReturnedIssues) :
          LET body == ReturnedIssues[j]
              rows == PhotosOf(photos', body.issue_id)
              stored == issues'[body.issue_id].completion_photo_url
          IN  /\ Len(body.photos) = Len(rows)
              /\ \A k \in 1..Len(rows) :
                    /\ body.photos[k] = get_file_url(rows[k].photo_url)
                    /\ body.photos[k] \notin blobs'
              /\ body.completion_photo_url \notin blobs'
              /\ IF stored = NoUrl \/ resp'.op = "create_issue"
                 THEN body.completion_photo_url = NoUrl
                 ELSE body.completion_photo_url = get_file_url(stored)
      ]_vars

\* get_issues returned an issue with two photos and a completion photo
C13_Witness ==
    /\ resp.op = "get_issues"
    /\ \E j \in 1..Len(resp.items) :
          /\ Len(resp.items[j].photos) = 2
          /\ resp.items[j].completion_photo_url # NoUrl
          /\ resp.items[j].completion_photo_url
                = get_file_url(issues[resp.items[j].issue_id].completion_photo_url)

(***************************************************************************)
(* Claims about deactivation (checked under SpecDeactivation).             *)
(***************************************************************************)
\* deactivate_user answered success in this step
DeactivationDone ==
    /\ resp'.op = "deactivate_user"
    /\ resp'.n # resp.n
    /\ resp'.code = "204"

ResolvedFrom(new, reps) ==
    IF reps # {}
    THEN new.status = "assigned" /\ new.assigned_parshad_id \in reps
    ELSE new.status = "reported" /\ new.assigned_parshad_id = NULL

\* C15: for a stored locality, what create_issue stores as status and
\* representative follows from the users table alone, and is the same
\* whether the locality is active or inactive.
C15_ResolutionIgnoresLocalityFlag ==
    [][ Len(issues') = Len(issues) + 1 =>
          LET new == issues'[Len(issues')]
              l == new.locality_id
          IN  l \in LocalityIds =>
                 /\ localities[l].is_active
                       => ResolvedFrom(new, ActiveRepresentativesOf(l))
                 /\ ~localities[l].is_active
                       => ResolvedFrom(new, ActiveRepresentativesOf(l))
      ]_vars

\* A report is in flight for an inactive locality, and is assigned to the
\* representative of that locality
C15_Witness ==
    /\ call.pc = "uploading"
    /\ issues[call.issue_id].locality_id \in LocalityIds
    /\ ~localities[issues[call.issue_id].locality_id].is_active
    /\ issues[call.issue_id].status = "assigned"
    /\ issues[call.issue_id].assigned_parshad_id
          \in ActiveRepresentativesOf(issues[call.issue_id].locality_id)

\* C16 (checked under SpecSharedLocality, where the users table never
\* changes): two issues reported for the same locality are assigned the
\* same representative.
C16_SameRepresentativeForSameUsers ==
    \A i, j \in IssueIds :
        issues[i].locality_id = issues[j].locality_id
            => issues[i].assigned_parshad_id = issues[j].assigned_parshad_id

(***************************************************************************)
(* Claims about transition requests side by side (checked under            *)
(* SpecConcurrentTransitions).                                             *)
(***************************************************************************)
\* The request of worker w is answered in this step
Answered(w) == txns[w] # NoTransition /\ txns'[w] = NoTransition

\* C17: of the transition requests that read the same status of the same
\* issue, the one answered first succeeds and moves the issue by exactly
\* one stage; every other one then finds the status changed and fails with
\* InvalidTransition, changing nothing.
C17_OneOfConcurrentTransitionsSucceeds ==
    [][ \A w \in Workers : Answered(w) =>
          LET txn == txns[w]
              i == txn.issue_id
          IN  /\ resp'.n # resp.n /\ resp'.op = "transition"
              /\ IF issues[i].status = txn.source_status
                 THEN /\ resp'.code = "ok"
                      /\ Stage(issues'[i].status) = Stage(txn.source_status) + 1
                      /\ \A v \in Workers \ {w} :
                            ( /\ txns[v].issue_id = i
                              /\ txns[v].source_status = txn.source_status )
                               => issues'[i].status # txns'[v].source_status
                 ELSE /\ resp'.code = "InvalidTransition"
                      /\ issues' = issues
      ]_vars

\* Two requests read the issue as ASSIGNED; one has been answered with
\* success, the other is still to write and the status it read is gone
C17_Witness ==
    /\ resp.op = "transition" /\ resp.code = "ok"
    /\ resp.request.issue_id = 1
    /\ txns[1] = NoTransition
    /\ txns[2].issue_id = 1
    /\ txns[2].source_status = "assigned"
    /\ txns[2].target_status = "representative_acknowledged"
    /\ issues[1].status = "representative_acknowledged"

(***************************************************************************)
(* Claims about the administrator's handlers.                              *)
(***************************************************************************)
\* C18 (checked under SpecConcurrentLocalities): no two locality rows have
\* the same name and type.
C18_NoDuplicateLocality ==
    \A a, b \in LocalityIds :
        a # b => \/ localities[a].name # localities[b].name
                 \/ localities[a].type # localities[b].type

\* The ten digits of the subscriber, whatever the spelling of the number
Subscriber(phone) ==
    SubSeq(phone.digits, Len(phone.digits) - 9, Len(phone.digits))

\* The rows of the users table that hold the number of a request
RowsOfNumber(phone) ==
    { u \in UserIds : Subscriber(users[u].mobile_number) = Subscriber(phone) }

\* create_user answered in this step
CreateUserAnswered == resp'.op = "create_user" /\ resp'.n # resp.n

\* C19 (checked under SpecUsers), about the users table: no two rows hold
\* the same number.
C19_OneRowPerNumber ==
    \A u, v \in UserIds :
        u # v => Subscriber(users[u].mobile_number)
                    # Subscriber(users[v].mobile_number)

\* C19 (checked under SpecUsers), about each call: create_user for a number
\* the table holds adds no row; if the row of the number has the requested
\* role the call fails and writes nothing; if the call succeeds, that row
\* gets the requested role and is_verified true, its locality_id is
\* replaced only when one is supplied, and every other row and field stays.
C19_CreateUserUpdatesInPlace ==
    [][ CreateUserAnswered =>
          LET q == resp'.request
              held == RowsOfNumber(q.mobile)
          IN  /\ resp'.code # "201" => users' = users
              /\ held # {} =>
                    /\ Len(users') = Len(users)
                    /\ \A u \in held :
                          /\ users[u].role = q.role
                                => resp'.code # "201" /\ users' = users
                          /\ resp'.code = "201" =>
                                users' = [ users EXCEPT ![u] =
                                   [ @ EXCEPT
                                       !.role = q.role,
                                       !.is_verified = TRUE,
                                       !.locality_id =
                                          IF q.locality_id # NULL
                                          THEN q.locality_id ELSE @ ] ]
      ]_vars /\ []C19_OneRowPerNumber

\* The representative was made a crew worker through the ten-digit spelling
\* of her number, with no locality supplied: she keeps her row and locality
C19_Witness ==
    /\ resp.op = "create_user" /\ resp.code = "201"
    /\ resp.request.mobile = StaffMobile
    /\ resp.request.role = "pwd_worker"
    /\ resp.request.locality_id = NULL
    /\ Len(users) = 4
    /\ users[3].role = "pwd_worker"
    /\ users[3].locality_id = 1
    /\ users[3].mobile_number = RepresentativeMobile

\* An issue or a user names the locality
Referenced(locality_id) ==
    \/ \E i \in IssueIds : issues[i].locality_id = locality_id
    \/ \E u \in UserIds : users[u].locality_id = locality_id

\* C20 (checked under SpecLocalityDeletion): delete_locality called by the
\* administrator fails with not-found for an unknown id; it fails and
\* leaves the locality, issue and user tables as they were when an issue or
\* a user names the locality; otherwise it removes that locality row and
\* nothing else.
C20_DeleteOnlyUnreferencedLocality ==
    [][ ( /\ resp'.op = "delete_locality"
          /\ resp'.n # resp.n
          /\ IsAdmin(resp'.request.caller) ) =>
          LET l == resp'.request.locality_id
          IN  /\ users' = users /\ issues' = issues
              /\ IF l \notin LocalityIds
                 THEN resp'.code = "404" /\ localities' = localities
                 ELSE IF Referenced(l)
                 THEN resp'.code = "400" /\ localities' = localities
                 ELSE /\ resp'.code = "204"
                      /\ DOMAIN localities' = LocalityIds \ {l}
                      /\ \A k \in DOMAIN localities' :
                            localities'[k] = localities[k]
      ]_vars

\* Locality 1 was deleted once its representative had been moved to
\* locality 2, while an issue still names locality 2
C20_Witness ==
    /\ resp.op = "delete_locality" /\ resp.code = "204"
    /\ resp.request.locality_id = 1
    /\ LocalityIds = {2}
    /\ users[3].locality_id = 2
    /\ \E i \in IssueIds : issues[i].locality_id = 2

(***************************************************************************)
(* Claims about the administrator handlers.                                *)
(***************************************************************************)
AdminOps ==
    { "create_locality", "update_locality", "delete_locality",
      "get_localities", "get_locality",
      "create_user", "update_user", "deactivate_user",
      "get_users", "get_user" }

\* An administrator handler answered in this step
AdminAnswered == resp'.op \in AdminOps /\ resp'.n # resp.n

\* C21 (checked under SpecAdminOnly): an administrator handler called by a
\* user whose role is not admin answers 403 and leaves the users and the
\* localities tables as they were; called by an administrator it does not
\* answer 403; and no row of the two tables changes except in a call made
\* by an administrator.
C21_AdminOnly ==
    [][ /\ AdminAnswered =>
             IF users[resp'.request.caller].role # "admin"
             THEN /\ resp'.code = "403"
                  /\ users' = users
                  /\ localities' = localities
             ELSE resp'.code # "403"
        /\ (users' # users \/ localities' # localities) =>
             /\ AdminAnswered
             /\ users[resp'.request.caller].role = "admin"
      ]_vars

\* The representative, still active and in office, asked to deactivate the
\* crew worker and was refused, after the administrator had made the
\* citizen an administrator
C21_Witness ==
    /\ resp.op = "deactivate_user" /\ resp.code = "403"
    /\ resp.request.caller = 3 /\ resp.request.user_id = 4
    /\ users[3].role = "representative" /\ users[3].is_active
    /\ users[4].is_active
    /\ users[2].role = "admin"

\* C22 (checked under Spec): every user whose role is representative has a
\* locality_id.
C22_RepresentativesHaveLocality ==
    \A u \in UserIds :
        users[u].role = "representative" => users[u].locality_id # NULL

(***************************************************************************)
(* Claims about the map query (checked under SpecMap).                     *)
(***************************************************************************)
\* C23: the map query returns, each once, exactly the stored issues that
\* pass every filter supplied and lie at a distance from the centre of at
\* most the radius; around (0, 0) with radius 1 km an issue at (0.001,
\* 0.001) degrees, about 157 m away, is returned when it passes the
\* filters, and one at (1, 1) degrees, about 157 km away, is not; the
\* query leaves every table as it was.
C23_MapQueryReturnsNearbyIssues ==
    [][ (resp'.op = "get_issues_for_map" /\ resp'.n # resp.n) =>
          LET q == resp'.request
              returned == { resp'.items[k] : k \in DOMAIN resp'.items }
              passes(i) == /\ q.issue_type \subseteq {issues[i].issue_type}
                           /\ q.status \subseteq {issues[i].status}
              distance(i) == haversine_distance(q.latitude, q.longitude,
                                 issues[i].latitude, issues[i].longitude)
          IN  /\ returned = { i \in IssueIds :
                                passes(i) /\ distance(i) <= q.radius }
              /\ Len(resp'.items) = Cardinality(returned)
              /\ haversine_distance(0, 0, 1, 1) \in 156..158
              /\ haversine_distance(0, 0, 1000, 1000) \in 157000..157500
              /\ q.radius = 1000 =>
                    \A i \in IssueIds :
                       /\ ( /\ passes(i)
                            /\ issues[i].latitude = 1
                            /\ issues[i].longitude = 1 ) => i \in returned
                       /\ ( /\ issues[i].latitude = 1000
                            /\ issues[i].longitude = 1000 ) => i \notin returned
              /\ UNCHANGED <<users, localities, issues, photos, blobs>>
      ]_vars

\* The query with the radius that is exactly the distance of the first
\* issue returned it and left out the issue 157 km away
C23_Witness ==
    /\ resp.op = "get_issues_for_map"
    /\ Len(issues) = 2
    /\ issues[1].latitude = 1 /\ issues[1].longitude = 1
    /\ issues[2].latitude = 1000 /\ issues[2].longitude = 1000
    /\ resp.request.radius = haversine_distance(0, 0, 1, 1)
    /\ resp.request.issue_type = {} /\ resp.request.status = {}
    /\ resp.items = <<1>>

(***************************************************************************)
(* Claims about the ownership of photos (checked under SpecPhotoOwnership).*)
(***************************************************************************)
\* The issues that photo rows name
PhotoOwners(rows) == { rows[k].issue_id : k \in DOMAIN rows }

C25_AdminKeepsOwnAccount ==
    [][ ( /\ AdminAnswered
          /\ resp'.op \in {"deactivate_user", "update_user", "create_user"}
          /\ IsAdmin(resp'.request.caller) ) =>
          LET own == users'[resp'.request.caller]
          IN  own.role = "admin" /\ own.is_active
      ]_vars

\* C26 (checked under SpecConcurrentDeletion): the locality_id of every
\* stored issue is null or the id of a stored locality, and no step
\* removes a locality that a stored issue names.
C26_IssueLocalityIsStored ==
    /\ [](\A i \in IssueIds : ForeignKeyHolds(issues[i].locality_id))
    /\ [][ \A l \in LocalityIds \ LocalityIds' :
              IssuesOfLocality(l) = {} ]_vars

C28_NoAssignmentToMissingOrInactiveLocality ==
    [][ ( /\ AdminAnswered
          /\ resp'.op \in {"create_user", "update_user"}
          /\ IsAdmin(resp'.request.caller)
          /\ resp'.request.locality_id # NULL ) =>
          LET l == resp'.request.locality_id
          IN  (l \notin LocalityIds \/ ~localities[l].is_active) =>
                 /\ resp'.code \in {"400", "404"}
                 /\ users' = users
      ]_vars

=============================================================================
